---- MODULE Spec2Model ----
(***************************************************************************)
(* Model of the markdown template validator of compliance-trestle           *)
(* (trestle/core/markdown/markdown_validator.py), of the task               *)
(* xccdf-result-to-oscal-ar (trestle/tasks/xccdf_result_to_oscal_ar.py)     *)
(* and of the control merge and the catalog interface exercised by          *)
(* tests/trestle/core/commands/author/catalog_test.py.                      *)
(*                                                                          *)
(* Every operation of the program is a call.  The initial state holds what  *)
(* exists before the call (the template side); the action makes the call    *)
(* with the instance side as its arguments and records what it returned.    *)
(* Each operation has its own specification (SpecKeys, SpecHeaders, ...).   *)
(***************************************************************************)
EXTENDS Integers, Sequences, FiniteSets, TLC

VARIABLES
    pc,             \* <<operation, "ready">> before the call, <<operation, "returned">> after
    template,       \* compare_keys: the template dict
    candidate,      \* compare_keys: the candidate dict
    status,         \* compare_keys: the returned bool
    template_keys,  \* _validate_headers: the template's key sequence
    instance_keys,  \* _validate_headers: the instance's key sequence
    template_header_pointer,  \* _validate_headers: the pointer when it returned
    is_valid,       \* _validate_headers: the returned bool
    self,           \* the MarkdownValidator: the fields __init__ sets
    instance,       \* is_valid_against_template: str(instance), the path
    instance_header,  \* is_valid_against_template: the instance's header dict
    instance_tree,  \* is_valid_against_template: the instance's markdown tree
    result,         \* is_valid_against_template: its outcome and the checks it reached
    control_a,      \* merge_controls: the base control, changed in place
    control_b,      \* merge_controls: the incoming control
    replace_params, \* merge_controls: the flag
    base_before,    \* merge_controls: control_a as it was when the call was made
    task,           \* the XccdfResultToOscalAR task and the directories it works on
    interface,      \* the CatalogInterface: its catalog and its control dict
    call,           \* CatalogInterface: the last call, what it returned, the interface before it
    original,       \* CatalogInterface: the catalog the interface was built from
    supplied        \* CatalogInterface: for every id, the control last supplied for it

keys_vars == <<template, candidate, status>>

headers_vars == <<template_keys, instance_keys, template_header_pointer, is_valid>>

valid_vars == <<self, instance, instance_header, instance_tree, result>>

merge_vars == <<control_a, control_b, replace_params, base_before>>

task_vars == <<task>>

catalog_vars == <<interface, call, original, supplied>>

vars == <<pc, keys_vars, headers_vars, valid_vars, merge_vars, task_vars, catalog_vars>>

None == "None"

Ready(operation) == pc = <<operation, "ready">>

Returned(operation) == pc = <<operation, "returned">>

Range(s) == {s[n] : n \in DOMAIN s}

(***************************************************************************)
(* Header dicts.  A dict is a function from its keys to values; a value is  *)
(* a leaf (anything whose type is not dict) or a nested dict.               *)
(***************************************************************************)
EmptyDict == [k \in {} |-> 0]

Leaf(v) == [kind |-> "leaf", leaf |-> v, dict |-> EmptyDict]

Nested(d) == [kind |-> "dict", leaf |-> 0, dict |-> d]

\* The dicts {k: v} and {k1: v1, k2: v2}.
D1(k, v) == [x \in {k} |-> v]

D2(k1, v1, k2, v2) == [x \in {k1, k2} |-> IF x = k1 THEN v1 ELSE v2]

DictsOver(keys, values) == UNION {[S -> values] : S \in SUBSET keys}

\* Keys and leaf values of the dicts handed to compare_keys.
TopKeys == {"a", "b"}

InnerKeys == {"c", "d"}

TemplateLeaves == {1, 2}

CandidateLeaves == {1, 2, 7, 9}

HeaderDicts(leaves) ==
    DictsOver(TopKeys,
              {Leaf(v) : v \in leaves}
                  \cup {Nested(d) : d \in DictsOver(InnerKeys, {Leaf(v) : v \in leaves})})

(***************************************************************************)
(* MarkdownValidator.compare_keys: the count test, then the loop over the   *)
(* template's keys with its early returns.                                  *)
(***************************************************************************)
RECURSIVE compare_keys_loop(_, _, _)
compare_keys_drop_count(tmpl, cand) ==
    compare_keys_loop(tmpl, cand, DOMAIN tmpl)

compare_keys(tmpl, cand) ==
    IF Cardinality(DOMAIN tmpl) # Cardinality(DOMAIN cand)
    THEN FALSE
    ELSE compare_keys_loop(tmpl, cand, DOMAIN tmpl)

\* The for loop of compare_keys over the template keys not yet visited.
compare_keys_loop(tmpl, cand, keys) ==
    IF keys = {}
    THEN TRUE
    ELSE LET key == CHOOSE k \in keys : TRUE
         IN  IF key \in DOMAIN cand
             THEN IF tmpl[key].kind = "dict"
                  THEN IF cand[key].kind = "dict"
                       THEN IF ~compare_keys(tmpl[key].dict, cand[key].dict)
                            THEN FALSE
                            ELSE compare_keys_loop(tmpl, cand, keys \ {key})
                       ELSE FALSE
                  ELSE compare_keys_loop(tmpl, cand, keys \ {key})
             ELSE FALSE

(***************************************************************************)
(* MarkdownValidator._validate_headers.  Keys are heading texts.            *)
(***************************************************************************)
\* Longest template key sequence handed to _validate_headers; instances are
\* one key longer, so that a key can be added to the longest template.
MaxLen == 3

\* The headings a template is made of: three fixed headings and a
\* placeholder.  An instance may also hold X, which no template has.
TemplateHeadings == {"A", "B", "C", "{{var}}"}

Headings == TemplateHeadings \cup {"X"}

\* The heading texts in which md_const.SUBSTITUTION_REGEX finds a match.
SubstitutionHeadings == {"{{var}}"}

\* re.search(md_const.SUBSTITUTION_REGEX, key) is not None
IsSubstitution(key) == key \in SubstitutionHeadings

SeqsUpTo(S, n) == UNION {[1..m -> S] : m \in 0..n}

\* The loop's state: the pointer p, the number n of instance keys the for
\* statement has taken, and how the loop was left ("no": still in it).
LoopStart == [p |-> 0, n |-> 0, left |-> "no"]

\* One pass through the body of the for loop with the instance key `key`.
loop_body_no_shuffle_test(tkeys, s, key) ==
    IF s.p >= Len(tkeys)
    THEN [s EXCEPT !.n = @ + 1, !.left = "break"]
    ELSE IF key = tkeys[s.p + 1]
    THEN [s EXCEPT !.n = @ + 1, !.p = @ + 1]
    ELSE IF IsSubstitution(tkeys[s.p + 1])
    THEN [s EXCEPT !.n = @ + 1, !.p = @ + 1]
    ELSE [s EXCEPT !.n = @ + 1]

loop_body_no_substitution(tkeys, s, key) ==
    IF s.p >= Len(tkeys)
    THEN [s EXCEPT !.n = @ + 1, !.left = "break"]
    ELSE IF key \in Range(tkeys) /\ key # tkeys[s.p + 1]
    THEN [s EXCEPT !.n = @ + 1, !.left = "return False"]
    ELSE IF key \in Range(tkeys) /\ key = tkeys[s.p + 1]
    THEN [s EXCEPT !.n = @ + 1, !.p = @ + 1]
    ELSE [s EXCEPT !.n = @ + 1]

loop_body_extra_rejected(tkeys, s, key) ==
    IF s.p >= Len(tkeys)
    THEN [s EXCEPT !.n = @ + 1, !.left = "break"]
    ELSE IF key # tkeys[s.p + 1] /\ ~IsSubstitution(tkeys[s.p + 1])
    THEN [s EXCEPT !.n = @ + 1, !.left = "return False"]
    ELSE [s EXCEPT !.n = @ + 1, !.p = @ + 1]

loop_body_consume_none(tkeys, s, key) ==
    IF s.p >= Len(tkeys)
    THEN [s EXCEPT !.n = @ + 1, !.left = "break"]
    ELSE IF key \in Range(tkeys) /\ key # tkeys[s.p + 1]
    THEN [s EXCEPT !.n = @ + 1, !.left = "return False"]
    ELSE IF key \in Range(tkeys) /\ key = tkeys[s.p + 1]
    THEN [s EXCEPT !.n = @ + 1, !.p = @ + 1]
    ELSE IF IsSubstitution(tkeys[s.p + 1])
    THEN [s EXCEPT !.p = @ + 1]
    ELSE [s EXCEPT !.n = @ + 1]

loop_body(tkeys, s, key) ==
    IF s.p >= Len(tkeys)
    THEN [s EXCEPT !.n = @ + 1, !.left = "break"]
    ELSE IF key \in Range(tkeys) /\ key # tkeys[s.p + 1]
    THEN [s EXCEPT !.n = @ + 1, !.left = "return False"]
    ELSE IF key \in Range(tkeys) /\ key = tkeys[s.p + 1]
    THEN [s EXCEPT !.n = @ + 1, !.p = @ + 1]
    ELSE IF IsSubstitution(tkeys[s.p + 1])
    THEN [s EXCEPT !.n = @ + 1, !.p = @ + 1]
    ELSE [s EXCEPT !.n = @ + 1]

\* The loop's state once the for statement has taken `taken` instance keys
\* (or has been left before that).
RECURSIVE walk(_, _, _)
walk(tkeys, ikeys, taken) ==
    IF taken = 0
    THEN LoopStart
    ELSE LET s == walk(tkeys, ikeys, taken - 1)
         IN  IF s.left # "no" THEN s ELSE loop_body(tkeys, s, ikeys[taken])

\* The test that follows the loop.
after_loop_no_pointer_test(tkeys, s) ==
    s.left # "return False"

after_loop(tkeys, s) ==
    IF s.left = "return False"
    THEN FALSE
    ELSE IF s.p # Len(tkeys) THEN FALSE ELSE TRUE

_validate_headers(tkeys, ikeys) ==
    IF Len(tkeys) > Len(ikeys)
    THEN FALSE
    ELSE after_loop(tkeys, walk(tkeys, ikeys, Len(ikeys)))

(***************************************************************************)
(* Markdown trees, as far as the validator reads them: the heading keys in  *)
(* document order and the governed document of the governed heading's node. *)
(***************************************************************************)
\* Longest heading sequence of a markdown tree.
MaxTreeLen == 2

GovernedHeading == "# Gov"

TreeHeadings == {"# A", "## B", GovernedHeading}

Level1Headings == {"# A", GovernedHeading}

\* The key sequences a governed section may hold.
GovernedDocuments == {<<>>, <<"k1">>}

Tree(keys, governed) == [subnodes_keys |-> keys, governed_document |-> governed]

\* A tree's node for the governed heading exists exactly when the heading is
\* among its keys; without the node there is no governed document.
MarkdownTrees ==
    {Tree(keys, <<>>) :
        keys \in {k \in SeqsUpTo(TreeHeadings, MaxTreeLen) : GovernedHeading \notin Range(k)}}
    \cup
    {Tree(keys, governed) :
        keys \in {k \in SeqsUpTo(TreeHeadings, MaxTreeLen) : GovernedHeading \in Range(k)},
        governed \in GovernedDocuments}

\* MarkdownNode.get_node_for_key(key, False): the node, or None (found = FALSE).
get_node_for_key(tree, key) ==
    IF key \in Range(tree.subnodes_keys)
    THEN [found |-> TRUE, governed_document |-> tree.governed_document]
    ELSE [found |-> FALSE, governed_document |-> <<>>]

\* list(MarkdownNode.get_all_headers_for_level(1))
get_all_headers_for_level_1(tree) ==
    SelectSeq(tree.subnodes_keys, LAMBDA h : h \in Level1Headings)

(***************************************************************************)
(* MarkdownValidator.is_valid_against_template.  Strings that are searched  *)
(* (the path, the version values) are sequences of characters.              *)
(***************************************************************************)
TemplateVersionKey == "x-trestle-template-version"

\* needle in hay, for two str
Contains(hay, needle) ==
    \E k \in 0..(Len(hay) - Len(needle)) : SubSeq(hay, k + 1, k + Len(needle)) = needle

VersionHeader(version_key_value, version_value) ==
    [k \in {TemplateVersionKey, "Version"} |->
        IF k = TemplateVersionKey THEN Leaf(version_key_value) ELSE Leaf(version_value)]

TemplateHeaders ==
    { EmptyDict,
      D1("Version", Leaf(<<"1">>)),
      D1(TemplateVersionKey, Leaf(<<"1">>)),
      VersionHeader(<<"1">>, <<"1">>),
      VersionHeader(<<"1">>, <<"2">>),
      VersionHeader(<<"2">>, <<"2">>) }

InstanceHeaders == {EmptyDict, VersionHeader(<<"1">>, <<"1">>)}

InstancePaths == {<<"m", "d", "/", "1">>, <<"m", "d", "/", "2">>}

Validators ==
    [validate_yaml_header : BOOLEAN,
     validate_md_body : BOOLEAN,
     md_header_to_validate : {None, GovernedHeading},
     template_header : TemplateHeaders,
     template_tree : MarkdownTrees,
     template_version : BOOLEAN]

\* What a part of the function hands on: it has returned (outcome "True",
\* "False" or the exception raised), or the function goes on (outcome "").
Return(outcome, reached) == [outcome |-> outcome, consulted |-> reached]

GoOn(reached) == [outcome |-> "", consulted |-> reached]

\* Lines 86-92: the generic key check and what follows from it.
generic_key_check(v, header, reached) ==
    LET headers_match == compare_keys(v.template_header, header)
    IN  IF ~headers_match
        THEN Return("False", reached \cup {"compare_keys"})
        ELSE IF ~v.validate_md_body
             THEN Return("True", reached \cup {"compare_keys"})
             ELSE GoOn(reached \cup {"compare_keys"})

yaml_header_falls_through(v, path, header) ==
    IF v.validate_yaml_header
    THEN IF v.template_version
         THEN IF TemplateVersionKey \in DOMAIN v.template_header
              THEN IF ~Contains(path, v.template_header[TemplateVersionKey].leaf)
                   THEN Return("False", {"template_version"})
                   ELSE IF "Version" \in DOMAIN v.template_header
                        THEN IF v.template_header["Version"]
                                    = v.template_header[TemplateVersionKey]
                             THEN Return("True", {"template_version"})
                             ELSE Return("False", {"template_version"})
                        ELSE Return("False", {"template_version"})
              ELSE generic_key_check(v, header, {"template_version"})
         ELSE generic_key_check(v, header, {})
    ELSE GoOn({})

\* Lines 75-92: the YAML header.
yaml_header(v, path, header) ==
    IF v.validate_yaml_header
    THEN IF v.template_version
         THEN IF TemplateVersionKey \in DOMAIN v.template_header
              THEN IF ~Contains(path, v.template_header[TemplateVersionKey].leaf)
                   THEN Return("False", {"template_version"})
                   ELSE IF "Version" \in DOMAIN v.template_header
                        THEN IF v.template_header["Version"]
                                    = v.template_header[TemplateVersionKey]
                             THEN Return("True", {"template_version"})
                             ELSE Return("False", {"template_version"})
                        ELSE Return("False", {"template_version"})
              ELSE Return("False", {"template_version"})
         ELSE generic_key_check(v, header, {})
    ELSE GoOn({})

\* Lines 94-105: the governed section.
governed_section(v, tree) ==
    IF v.md_header_to_validate # None
    THEN LET instance_gov_node == get_node_for_key(tree, v.md_header_to_validate)
             template_gov_node == get_node_for_key(v.template_tree, v.md_header_to_validate)
         IN  IF ~instance_gov_node.found
             THEN Return("False", {"governed"})
             ELSE IF ~template_gov_node.found
                  THEN Return("AttributeError", {"governed"})
                  ELSE IF ~_validate_headers(template_gov_node.governed_document,
                                             instance_gov_node.governed_document)
                       THEN Return("False", {"governed"})
                       ELSE GoOn({"governed"})
    ELSE GoOn({})

\* Lines 107-128: the markdown body.
md_body_no_level1_test(v, path, tree) ==
    IF v.validate_md_body
    THEN IF v.template_version
              /\ (TemplateVersionKey \notin DOMAIN v.template_header
                  \/ ~Contains(path, v.template_header[TemplateVersionKey].leaf))
         THEN Return("False", {"body"})
         ELSE IF Len(v.template_tree.subnodes_keys) > Len(tree.subnodes_keys)
              THEN Return("False", {"body"})
              ELSE IF ~_validate_headers(v.template_tree.subnodes_keys, tree.subnodes_keys)
                   THEN Return("False", {"body"})
                   ELSE GoOn({"body"})
    ELSE GoOn({})

md_body(v, path, tree) ==
    IF v.validate_md_body
    THEN LET instance_keys_ == tree.subnodes_keys
             template_keys_ == v.template_tree.subnodes_keys
         IN  IF v.template_version
                  /\ (IF TemplateVersionKey \in DOMAIN v.template_header
                      THEN ~Contains(path, v.template_header[TemplateVersionKey].leaf)
                      ELSE TRUE)
             THEN Return("False", {"body"})
             ELSE IF Len(template_keys_) > Len(instance_keys_)
                  THEN Return("False", {"body"})
                  ELSE IF Len(get_all_headers_for_level_1(v.template_tree))
                              < Len(get_all_headers_for_level_1(tree))
                       THEN Return("False", {"body"})
                       ELSE IF ~_validate_headers(template_keys_, instance_keys_)
                            THEN Return("False", {"body"})
                            ELSE GoOn({"body"})
    ELSE GoOn({})

\* The three parts in the order of the code; the first that returns decides.
is_valid_against_template(v, path, header, tree) ==
    LET first == yaml_header(v, path, header)
    IN  IF first.outcome # ""
        THEN first
        ELSE LET second == governed_section(v, tree)
             IN  IF second.outcome # ""
                 THEN Return(second.outcome, first.consulted \cup second.consulted)
                 ELSE LET third == md_body(v, path, tree)
                          reached == first.consulted \cup second.consulted \cup third.consulted
                      IN  IF third.outcome # ""
                          THEN Return(third.outcome, reached)
                          ELSE Return("True", reached)

(***************************************************************************)
(* CatalogInterface.merge_controls(dest, src, replace_params).  A control   *)
(* is its parameters (id and values each) and its parts.                    *)
(***************************************************************************)
\* Most parameters of a control; the parameter ids are 1..MaxParams.
MaxParams == 2

ParamIds == 1..MaxParams

ParamValues == {<<"param_0_val">>, <<"new value">>}

PartLists == {<<>>, <<"statement">>}

\* Parameter ids are unique within a control.
ParamLists ==
    {ps \in SeqsUpTo([id : ParamIds, values : ParamValues], MaxParams) :
        \A m, n \in DOMAIN ps : m # n => ps[m].id # ps[n].id}

Controls == [params : ParamLists, parts : PartLists]

ParamIdsOf(control) == {control.params[n].id : n \in DOMAIN control.params}

ParamOf(control, id) ==
    control.params[CHOOSE n \in DOMAIN control.params : control.params[n].id = id]

\* The parameters of dest the merge may keep.  When src has fewer
\* parameters than dest, the specification (4.1) has dest truncated to the
\* ids of src whatever replace_params is; the test's last line (209) checks
\* one parameter with replace_params and names two without it.  Without
\* replace_params both outcomes are possible here.
kept_params(dest, src, replace) ==
    LET truncated == SelectSeq(dest.params, LAMBDA q : q.id \in ParamIdsOf(src))
    IN  IF Len(src.params) >= Len(dest.params) THEN {dest.params}
        ELSE IF replace THEN {truncated}
        ELSE {truncated, dest.params}

\* A kept parameter after the merge: with replace_params it takes the
\* values of src's parameter of the same id, if src has one.
merged_param(param, src, replace) ==
    IF replace /\ param.id \in ParamIdsOf(src)
    THEN [id |-> param.id, values |-> ParamOf(src, param.id).values]
    ELSE param

merge_controls_keeps_dest_values(dest, src, replace) ==
    {[params |-> kept, parts |-> src.parts] : kept \in kept_params(dest, src, replace)}

\* What dest may be after the call: src's parts; dest's parameters in dest's
\* order, matched with src's by id.
merge_controls(dest, src, replace) ==
    {[params |-> [n \in DOMAIN kept |-> merged_param(kept[n], src, replace)],
      parts |-> src.parts] : kept \in kept_params(dest, src, replace)}

(***************************************************************************)
(* The task xccdf-result-to-oscal-ar                                        *)
(* (trestle/tasks/xccdf_result_to_oscal_ar.py).                             *)
(*                                                                          *)
(* A file name is a stem and a suffix; stem n stands for the n-th letter,   *)
(* so that names sort by stem and then by suffix, as the strings do.  The   *)
(* input directory maps every name to "absent", "good" or "bad": a bad      *)
(* file is one whose reading or transformation raises.  The output          *)
(* directory maps every stem to the content of <stem>.oscal.json: Absent,   *)
(* Old (there before the call) or the name of the input it was written      *)
(* from.                                                                    *)
(***************************************************************************)
MaxStems == 2

Stems == 1 .. MaxStems

SuffixOrder == <<".jsn", ".json", ".txt", ".xml", ".yaml", ".yml">>

InputSuffixes == {".json", ".txt", ".xml"}

AcceptedSuffixes == {".json", ".jsn", ".yaml", ".yml", ".xml"}

Names == [stem : Stems, suffix : InputSuffixes]

Absent == [stem |-> 0, suffix |-> "absent"]

Old == [stem |-> 0, suffix |-> "old"]

InputDirs ==
    {d \in [Names -> {"absent", "good", "bad"}] :
        \A n \in Names : d[n] = "bad" => n.suffix = ".json"}

OutputDirs == [Stems -> {Absent, Old}]

DefaultConfig ==
    [given |-> TRUE, input_dir |-> "given", output_dir |-> "given",
     output_overwrite |-> "absent", timestamp |-> "absent"]

\* The configurations: the ones the work accepts, and one for every way the
\* set-up can fail.
Configs ==
    {[DefaultConfig EXCEPT !.output_overwrite = o, !.timestamp = t] :
        o \in {"absent", "true", "false"}, t \in {"absent", "valid"}}
    \cup {[DefaultConfig EXCEPT !.given = FALSE],
          [DefaultConfig EXCEPT !.input_dir = "absent"],
          [DefaultConfig EXCEPT !.input_dir = "no such directory"],
          [DefaultConfig EXCEPT !.output_dir = "absent"],
          [DefaultConfig EXCEPT !.output_overwrite = "invalid"],
          [DefaultConfig EXCEPT !.timestamp = "invalid"]}

SuffixRank(suffix) == CHOOSE n \in DOMAIN SuffixOrder : SuffixOrder[n] = suffix

Before(f, g) ==
    \/ f.stem < g.stem
    \/ f.stem = g.stem /\ SuffixRank(f.suffix) < SuffixRank(g.suffix)

\* sorted(ipth.iterdir())
RECURSIVE sorted(_)
sorted(S) ==
    IF S = {} THEN <<>>
    ELSE LET first == CHOOSE f \in S : \A g \in S \ {f} : Before(f, g)
         IN  <<first>> \o sorted(S \ {first})

iterdir(dir) == {n \in Names : dir[n] # "absent"}

\* TaskOutcome(mode + word)
Outcome(t, word) ==
    IF t._simulate THEN (IF word = "success" THEN "simulated-success" ELSE "simulated-failure")
    ELSE word

\* An exception leaves _transform_work.
Raise(t) == [t EXCEPT !.exception = TRUE]

\* config.getboolean('output-overwrite', True)
getboolean(value) == value \in {"absent", "true"}

\* _transform_work up to its loop: the configuration is read, the output
\* directory made, the input directory listed.
_transform_work_setup(t) ==
    IF ~t.config.given THEN [t EXCEPT !.outcome = Outcome(t, "failure")]
    ELSE IF t.config.input_dir = "absent" THEN [t EXCEPT !.outcome = Outcome(t, "failure")]
    ELSE IF t.config.output_dir = "absent" THEN [t EXCEPT !.outcome = Outcome(t, "failure")]
    ELSE IF t.config.output_overwrite = "invalid" THEN Raise(t)
    ELSE IF t.config.timestamp = "invalid"
         THEN [t EXCEPT !._overwrite = getboolean(t.config.output_overwrite),
                        !.outcome = Outcome(t, "failure")]
    ELSE IF t.config.input_dir = "no such directory"
         THEN Raise([t EXCEPT !._overwrite = getboolean(t.config.output_overwrite)])
    ELSE [t EXCEPT !._overwrite = getboolean(t.config.output_overwrite),
                   !.ifiles = sorted(iterdir(t.input_dir))]

_write_file(t, ifile) ==
    IF ~t._simulate THEN [t EXCEPT !.output_dir[ifile.stem] = ifile] ELSE t

\* One turn of the loop of _transform_work, for the first of the files left.
transform_ifile_always_overwrites(t) ==
    LET ifile == Head(t.ifiles)
        rest == [t EXCEPT !.ifiles = Tail(t.ifiles)]
    IN  IF ifile.suffix \notin AcceptedSuffixes THEN rest
        ELSE LET read == [rest EXCEPT !.processed = Append(t.processed, ifile)]
             IN  IF t.input_dir[ifile] = "bad" THEN Raise(read)
                 ELSE _write_file(read, ifile)

transform_ifile(t) ==
    LET ifile == Head(t.ifiles)
        rest == [t EXCEPT !.ifiles = Tail(t.ifiles)]
    IN  IF ifile.suffix \notin AcceptedSuffixes THEN rest
        ELSE LET read == [rest EXCEPT !.processed = Append(t.processed, ifile)]
             IN  IF t.input_dir[ifile] = "bad" THEN Raise(read)
                 ELSE IF ~t._overwrite /\ t.output_dir[ifile.stem] # Absent
                      THEN [read EXCEPT !.outcome = Outcome(t, "failure")]
                 ELSE _write_file(read, ifile)

except_nothing(t) == t

\* The set-up of _transform_work goes through with this configuration.
SetupPasses(config) ==
    /\ config.given
    /\ config.input_dir = "given"
    /\ config.output_dir = "given"
    /\ config.output_overwrite # "invalid"
    /\ config.timestamp # "invalid"

\* The try of _transform: an exception becomes the failure of the mode.
except_Exception(t) ==
    IF t.exception
    THEN [t EXCEPT !.exception = FALSE, !.outcome = Outcome(t, "failure")]
    ELSE t

(***************************************************************************)
(* The Catalog Index (CatalogInterface), as the specification describes it  *)
(* in 4.1 and as catalog_test.py uses it.  A catalog owns its ungrouped     *)
(* controls and its groups; a group owns its controls and its groups; a     *)
(* control may hold controls of its own (control_d holds control_d1 in the  *)
(* test's catalog).  The interface keeps the catalog and a dict from        *)
(* control id to control, nested controls included; replace_control         *)
(* changes the dict, and update_catalog_controls brings the catalog up to   *)
(* date with the dict.                                                      *)
(***************************************************************************)
MaxControls == 2

ControlNames == <<"control_a", "control_b", "control_c", "control_d", "control_d1">>

ControlIds == {ControlNames[n] : n \in 1 .. MaxControls}

\* An id no catalog holds.
UnknownId == "control_x"

Titles == {"title", "updated"}

Withdrawn == [name |-> "status", value |-> "Withdrawn"]

Places == {"root", "g1", "g2"}

CatalogControl(id, title, withdrawn, controls) ==
    [id |-> id, title |-> title,
     props |-> IF withdrawn THEN <<Withdrawn>> ELSE <<>>,
     controls |-> controls]

\* The controls control number holder holds, by ascending number.
RECURSIVE HeldBy(_, _, _, _)
HeldBy(holder, parent, withdrawn, n) ==
    IF n > MaxControls THEN <<>>
    ELSE (IF parent[n] = holder
          THEN <<CatalogControl(ControlNames[n], "title", withdrawn[n], <<>>)>>
          ELSE <<>>)
         \o HeldBy(holder, parent, withdrawn, n + 1)

\* The controls one place owns, by ascending number, each with the
\* controls it holds.
RECURSIVE ControlsAt(_, _, _, _, _)
ControlsAt(place, parent, withdrawn, at, n) ==
    IF n > MaxControls THEN <<>>
    ELSE (IF place[n] = at /\ parent[n] = 0
          THEN <<CatalogControl(ControlNames[n], "title", withdrawn[n],
                                HeldBy(n, parent, withdrawn, n + 1))>>
          ELSE <<>>)
         \o ControlsAt(place, parent, withdrawn, at, n + 1)

Catalog(place, parent, withdrawn) ==
    [controls |-> ControlsAt(place, parent, withdrawn, "root", 1),
     groups |-> <<[id |-> "g1",
                   controls |-> ControlsAt(place, parent, withdrawn, "g1", 1),
                   groups |-> <<[id |-> "g2",
                                 controls |-> ControlsAt(place, parent, withdrawn, "g2", 1),
                                 groups |-> <<>>]>>]>>]

\* parent[n] is 0 for a control a place owns, else the number of the
\* control that holds it: an earlier one of the same place that no control holds.
Parents(place) ==
    {parent \in [1 .. MaxControls -> 0 .. MaxControls] :
        \A n \in 1 .. MaxControls :
            parent[n] # 0 => /\ parent[n] < n
                             /\ parent[parent[n]] = 0
                             /\ place[n] = place[parent[n]]}

\* The catalog of the fixture sample_catalog_rich_controls, as far as the
\* tests show it: two controls in the first group, two ungrouped, the
\* second of them holding control_d1.
sample_catalog_rich_controls(withdrawn_b) ==
    [controls |-> <<CatalogControl("control_c", "title", FALSE, <<>>),
                    CatalogControl("control_d", "title", FALSE,
                        <<CatalogControl("control_d1", "title", FALSE, <<>>)>>)>>,
     groups |-> <<[id |-> "g1",
                   controls |-> <<CatalogControl("control_a", "title", FALSE, <<>>),
                                  CatalogControl("control_b", "title", withdrawn_b, <<>>)>>,
                   groups |-> <<>>]>>]

PlaceRank(place) == IF place = "root" THEN 1 ELSE IF place = "g1" THEN 2 ELSE 3

\* Where the controls stand.  The numbers only name the controls and order
\* them within the sequence that owns them, so a later control never
\* stands in an earlier place: any other catalog is one of these with the
\* controls renamed.
Placements ==
    {place \in [1 .. MaxControls -> Places] :
        \A m, n \in 1 .. MaxControls : m < n => PlaceRank(place[m]) <= PlaceRank(place[n])}

\* Which controls are withdrawn.  The specification and the tests show
\* withdrawn controls only in the sequence of a group or of the root, and
\* holding no controls of their own (control_b of the fixture).
Withdrawals(parent) ==
    {withdrawn \in [1 .. MaxControls -> BOOLEAN] :
        \A n \in 1 .. MaxControls :
            withdrawn[n] => /\ parent[n] = 0
                            /\ \A m \in 1 .. MaxControls : parent[m] # n}

Catalogs ==
    UNION {UNION {{Catalog(place, parent, withdrawn) : withdrawn \in Withdrawals(parent)} :
                  parent \in Parents(place)} :
           place \in Placements}
    \cup {sample_catalog_rich_controls(withdrawn_b) : withdrawn_b \in BOOLEAN}

RECURSIVE Flatten(_)
Flatten(seqs) == IF seqs = <<>> THEN <<>> ELSE Head(seqs) \o Flatten(Tail(seqs))

\* Every control of a sequence, each followed by the controls it holds.
RECURSIVE with_held_controls(_)
with_held_controls(controls) ==
    Flatten([n \in DOMAIN controls |->
                <<controls[n]>> \o with_held_controls(controls[n].controls)])

\* Every control under a group, the group's own first.
RECURSIVE controls_of_group(_)
controls_of_group(group) ==
    with_held_controls(group.controls)
        \o Flatten([n \in DOMAIN group.groups |-> controls_of_group(group.groups[n])])

get_all_controls_from_catalog(catalog) ==
    Flatten([n \in DOMAIN catalog.groups |-> controls_of_group(catalog.groups[n])])
        \o with_held_controls(catalog.controls)

is_withdrawn(control) ==
    \E n \in DOMAIN control.props :
        control.props[n].name = "status" /\ control.props[n].value = "Withdrawn"

\* CatalogInterface(catalog)
CatalogInterface(catalog) ==
    LET controls == get_all_controls_from_catalog(catalog)
    IN  [_catalog |-> catalog,
         _control_dict |-> [id \in {controls[n].id : n \in DOMAIN controls} |->
                               LET n == CHOOSE n \in DOMAIN controls : controls[n].id = id
                               IN  controls[n]]]

Found(value) == [raised |-> None, value |-> value]

NotFound == [raised |-> "NotFound", value |-> None]

get_control(catalog_interface, id) ==
    IF id \in DOMAIN catalog_interface._control_dict
    THEN Found(catalog_interface._control_dict[id])
    ELSE NotFound

\* The interface after replace_control(control), and what the call gave.
replace_control(catalog_interface, control) ==
    IF control.id \in DOMAIN catalog_interface._control_dict
    THEN [interface |-> [catalog_interface EXCEPT !._control_dict[control.id] = control],
          result |-> Found(None)]
    ELSE [interface |-> catalog_interface, result |-> NotFound]

\* Every control of the sequence is replaced, where it stands, by the
\* control the dict holds for its id, and the controls that one holds are
\* replaced in the same way.
RECURSIVE fresh_controls(_, _)
fresh_controls(controls, dict) ==
    [n \in DOMAIN controls |->
        LET new_control == dict[controls[n].id]
        IN  [new_control EXCEPT !.controls = fresh_controls(new_control.controls, dict)]]

RECURSIVE fresh_group(_, _)
fresh_group(group, dict) ==
    [group EXCEPT !.controls = fresh_controls(group.controls, dict),
                  !.groups = [n \in DOMAIN group.groups |-> fresh_group(group.groups[n], dict)]]

update_catalog_controls_root_only(catalog_interface) ==
    [catalog_interface EXCEPT
        !._catalog.controls = fresh_controls(catalog_interface._catalog.controls,
                                             catalog_interface._control_dict)]

\* The catalog is brought up to date with the dict.
update_catalog_controls(catalog_interface) ==
    [catalog_interface EXCEPT
        !._catalog = fresh_group(catalog_interface._catalog, catalog_interface._control_dict)]

\* get_catalog(): the catalog, brought up to date first.
get_catalog(catalog_interface) == update_catalog_controls(catalog_interface)

get_count_of_controls_in_catalog(catalog_interface, include_withdrawn) ==
    Len(SelectSeq(get_all_controls_from_catalog(catalog_interface._catalog),
                  LAMBDA control : include_withdrawn \/ ~is_withdrawn(control)))

\* The sequence of a group or of the root without its withdrawn controls.
not_withdrawn(controls) == SelectSeq(controls, LAMBDA control : ~is_withdrawn(control))

RECURSIVE group_without_withdrawn(_)
group_without_withdrawn(group) ==
    [group EXCEPT !.controls = not_withdrawn(group.controls),
                  !.groups = [n \in DOMAIN group.groups |->
                                 group_without_withdrawn(group.groups[n])]]

delete_withdrawn_controls_from_dict_only(catalog_interface) ==
    LET dict == catalog_interface._control_dict
    IN  [catalog_interface EXCEPT
            !._control_dict = [id \in {id \in DOMAIN dict : ~is_withdrawn(dict[id])} |-> dict[id]]]

\* Every withdrawn control leaves the group or root sequence that owns it,
\* and the dict.
delete_withdrawn_controls(catalog_interface) ==
    LET dict == catalog_interface._control_dict
    IN  [_catalog |-> group_without_withdrawn(catalog_interface._catalog),
         _control_dict |-> [id \in {id \in DOMAIN dict : ~is_withdrawn(dict[id])} |-> dict[id]]]

NoKeysCall == template = None /\ candidate = None /\ status = None

NoHeadersCall ==
    /\ template_keys = None
    /\ instance_keys = None
    /\ template_header_pointer = None
    /\ is_valid = None

NoValidCall ==
    /\ self = None
    /\ instance = None
    /\ instance_header = None
    /\ instance_tree = None
    /\ result = None

NoMergeCall ==
    /\ control_a = None
    /\ control_b = None
    /\ replace_params = None
    /\ base_before = None

NoTaskCall == task = None

NoCatalogCall ==
    /\ interface = None
    /\ call = None
    /\ original = None
    /\ supplied = None

\* compare_keys is about to be called with some template dict.
InitKeys ==
    /\ pc = <<"compare_keys", "ready">>
    /\ template \in HeaderDicts(TemplateLeaves)
    /\ candidate = None
    /\ status = None
    /\ NoHeadersCall
    /\ NoValidCall
    /\ NoMergeCall
    /\ NoTaskCall
    /\ NoCatalogCall

\* A call compare_keys(template, candidate).
CallCompareKeys ==
    /\ Ready("compare_keys")
    /\ \E c \in HeaderDicts(CandidateLeaves) :
          /\ candidate' = c
          /\ status' = compare_keys(template, c)
    /\ pc' = <<"compare_keys", "returned">>
    /\ UNCHANGED <<template, headers_vars, valid_vars, merge_vars, task_vars, catalog_vars>>

NextKeys == CallCompareKeys

SpecKeys == InitKeys /\ [][NextKeys]_vars

\* _validate_headers is about to be called with some template key sequence.
InitHeaders ==
    /\ pc = <<"_validate_headers", "ready">>
    /\ template_keys \in SeqsUpTo(TemplateHeadings, MaxLen)
    /\ instance_keys = None
    /\ template_header_pointer = None
    /\ is_valid = None
    /\ NoKeysCall
    /\ NoValidCall
    /\ NoMergeCall
    /\ NoTaskCall
    /\ NoCatalogCall

\* A call self._validate_headers(instance, template_keys, instance_keys).
CallValidateHeaders ==
    /\ Ready("_validate_headers")
    /\ \E i \in SeqsUpTo(Headings, MaxLen + 1) :
          /\ instance_keys' = i
          /\ template_header_pointer' =
                IF Len(template_keys) > Len(i) THEN None ELSE walk(template_keys, i, Len(i)).p
          /\ is_valid' = _validate_headers(template_keys, i)
    /\ pc' = <<"_validate_headers", "returned">>
    /\ UNCHANGED <<template_keys, keys_vars, valid_vars, merge_vars, task_vars, catalog_vars>>

NextHeaders == CallValidateHeaders

SpecHeaders == InitHeaders /\ [][NextHeaders]_vars

\* A MarkdownValidator has been constructed.
InitValid ==
    /\ pc = <<"is_valid_against_template", "ready">>
    /\ self \in Validators
    /\ instance = None
    /\ instance_header = None
    /\ instance_tree = None
    /\ result = None
    /\ NoKeysCall
    /\ NoHeadersCall
    /\ NoMergeCall
    /\ NoTaskCall
    /\ NoCatalogCall

\* A call self.is_valid_against_template(instance, instance_header, instance_tree).
CallIsValidAgainstTemplate ==
    /\ Ready("is_valid_against_template")
    /\ \E path \in InstancePaths, header \in InstanceHeaders, tree \in MarkdownTrees :
          /\ instance' = path
          /\ instance_header' = header
          /\ instance_tree' = tree
          /\ result' = is_valid_against_template(self, path, header, tree)
    /\ pc' = <<"is_valid_against_template", "returned">>
    /\ UNCHANGED <<self, keys_vars, headers_vars, merge_vars, task_vars, catalog_vars>>

NextValid == CallIsValidAgainstTemplate

SpecValid == InitValid /\ [][NextValid]_vars

\* A control read from a catalog.
InitMerge ==
    /\ pc = <<"merge_controls", "ready">>
    /\ control_a \in Controls
    /\ control_b = None
    /\ replace_params = None
    /\ base_before = None
    /\ NoKeysCall
    /\ NoHeadersCall
    /\ NoValidCall
    /\ NoTaskCall
    /\ NoCatalogCall

\* A call CatalogInterface.merge_controls(control_a, control_b, replace_params).
CallMergeControls ==
    /\ Ready("merge_controls")
    /\ \E src \in Controls, replace \in BOOLEAN :
          /\ control_b' = src
          /\ replace_params' = replace
          /\ base_before' = control_a
          /\ control_a' \in merge_controls(control_a, src, replace)
    /\ pc' = <<"merge_controls", "returned">>
    /\ UNCHANGED <<keys_vars, headers_vars, valid_vars, task_vars, catalog_vars>>

NextMerge == CallMergeControls

SpecMerge == InitMerge /\ [][NextMerge]_vars

\* A task built from some configuration, before simulate() or execute();
\* the input and the output directory hold some files.
InitTask ==
    /\ pc = <<"_transform", "ready">>
    /\ \E config \in Configs, idir \in InputDirs, odir \in OutputDirs :
          task = [config |-> config, _simulate |-> None, _overwrite |-> None,
                  input_dir |-> idir, output_dir |-> odir,
                  ifiles |-> <<>>, processed |-> <<>>,
                  outcome |-> None, exception |-> FALSE]
    /\ NoKeysCall
    /\ NoHeadersCall
    /\ NoValidCall
    /\ NoMergeCall
    /\ NoCatalogCall

\* Where the task is after a step that left it as t.
AfterStep(t) ==
    IF t.outcome # None \/ t.exception
    THEN <<"_transform", "returned">>
    ELSE <<"_transform", "loop">>

\* simulate(), up to the loop of _transform_work.
simulate ==
    /\ Ready("_transform")
    /\ task' = except_Exception(_transform_work_setup([task EXCEPT !._simulate = TRUE]))
    /\ pc' = AfterStep(task')
    /\ UNCHANGED <<keys_vars, headers_vars, valid_vars, merge_vars, catalog_vars>>

\* execute(), up to the loop of _transform_work.
execute ==
    /\ Ready("_transform")
    /\ task' = except_Exception(_transform_work_setup([task EXCEPT !._simulate = FALSE]))
    /\ pc' = AfterStep(task')
    /\ UNCHANGED <<keys_vars, headers_vars, valid_vars, merge_vars, catalog_vars>>

\* One turn of the loop over the sorted input files.
TransformIfile ==
    /\ pc = <<"_transform", "loop">>
    /\ task.ifiles # <<>>
    /\ task' = except_Exception(transform_ifile(task))
    /\ pc' = AfterStep(task')
    /\ UNCHANGED <<keys_vars, headers_vars, valid_vars, merge_vars, catalog_vars>>

\* The loop is over: return TaskOutcome(mode + 'success').
ReturnSuccess ==
    /\ pc = <<"_transform", "loop">>
    /\ task.ifiles = <<>>
    /\ task' = [task EXCEPT !.outcome = Outcome(task, "success")]
    /\ pc' = <<"_transform", "returned">>
    /\ UNCHANGED <<keys_vars, headers_vars, valid_vars, merge_vars, catalog_vars>>

NextTask == simulate \/ execute \/ TransformIfile \/ ReturnSuccess

SpecTask == InitTask /\ [][NextTask]_vars

\* An interface built from some catalog; supplied holds the catalog's own
\* controls.
InitCatalog ==
    /\ pc = <<"CatalogInterface", "ready">>
    /\ \E catalog \in Catalogs :
          /\ interface = CatalogInterface(catalog)
          /\ original = catalog
          /\ supplied = CatalogInterface(catalog)._control_dict
    /\ call = [name |-> None, arg |-> None, result |-> Found(None), before |-> None]
    /\ NoKeysCall
    /\ NoHeadersCall
    /\ NoValidCall
    /\ NoMergeCall
    /\ NoTaskCall

InCatalog == pc[1] = "CatalogInterface"

\* interface.get_control(id)
GetControl ==
    /\ InCatalog
    /\ \E id \in DOMAIN supplied \cup {UnknownId} :
          call' = [name |-> "get_control", arg |-> id,
                   result |-> get_control(interface, id), before |-> interface]
    /\ pc' = <<"CatalogInterface", "returned">>
    /\ UNCHANGED <<interface, original, supplied>>
    /\ UNCHANGED <<keys_vars, headers_vars, valid_vars, merge_vars, task_vars>>

\* interface.replace_control(control), with a control the caller got from
\* the interface and gave a title, or with a control of an unknown id.
ReplaceControl ==
    /\ InCatalog
    /\ \E id \in DOMAIN supplied \cup {UnknownId}, title \in Titles :
          LET control == IF id \in DOMAIN interface._control_dict
                         THEN [interface._control_dict[id] EXCEPT !.title = title]
                         ELSE CatalogControl(id, title, FALSE, <<>>)
              done == replace_control(interface, control)
          IN  /\ interface' = done.interface
              /\ call' = [name |-> "replace_control", arg |-> control,
                          result |-> done.result, before |-> interface]
              /\ supplied' = IF done.result = NotFound THEN supplied
                             ELSE [supplied EXCEPT ![id] = control]
    /\ pc' = <<"CatalogInterface", "returned">>
    /\ UNCHANGED original
    /\ UNCHANGED <<keys_vars, headers_vars, valid_vars, merge_vars, task_vars>>

\* interface.update_catalog_controls()
UpdateCatalogControls ==
    /\ InCatalog
    /\ interface' = update_catalog_controls(interface)
    /\ call' = [name |-> "update_catalog_controls", arg |-> None,
                result |-> Found(None), before |-> interface]
    /\ pc' = <<"CatalogInterface", "returned">>
    /\ UNCHANGED <<original, supplied>>
    /\ UNCHANGED <<keys_vars, headers_vars, valid_vars, merge_vars, task_vars>>

\* interface.get_catalog()
GetCatalog ==
    /\ InCatalog
    /\ interface' = get_catalog(interface)
    /\ call' = [name |-> "get_catalog", arg |-> None,
                result |-> Found(interface'._catalog), before |-> interface]
    /\ pc' = <<"CatalogInterface", "returned">>
    /\ UNCHANGED <<original, supplied>>
    /\ UNCHANGED <<keys_vars, headers_vars, valid_vars, merge_vars, task_vars>>

\* interface.get_count_of_controls_in_catalog(include_withdrawn)
GetCountOfControlsInCatalog ==
    /\ InCatalog
    /\ \E include_withdrawn \in BOOLEAN :
          call' = [name |-> "get_count_of_controls_in_catalog", arg |-> include_withdrawn,
                   result |-> Found(get_count_of_controls_in_catalog(interface, include_withdrawn)),
                   before |-> interface]
    /\ pc' = <<"CatalogInterface", "returned">>
    /\ UNCHANGED <<interface, original, supplied>>
    /\ UNCHANGED <<keys_vars, headers_vars, valid_vars, merge_vars, task_vars>>

\* interface.delete_withdrawn_controls()
DeleteWithdrawnControls ==
    /\ InCatalog
    /\ interface' = delete_withdrawn_controls(interface)
    /\ call' = [name |-> "delete_withdrawn_controls", arg |-> None,
                result |-> Found(None), before |-> interface]
    /\ pc' = <<"CatalogInterface", "returned">>
    /\ UNCHANGED <<original, supplied>>
    /\ UNCHANGED <<keys_vars, headers_vars, valid_vars, merge_vars, task_vars>>

\* Lookups and replacements.
NextReplace == GetControl \/ ReplaceControl \/ UpdateCatalogControls \/ GetCatalog

SpecReplace == InitCatalog /\ [][NextReplace]_vars

\* Counts and the removal of withdrawn controls.
NextWithdrawn == GetCountOfControlsInCatalog \/ DeleteWithdrawnControls

SpecWithdrawn == InitCatalog /\ [][NextWithdrawn]_vars

\* The two operations of the markdown validator.
InitValidator == InitHeaders \/ InitValid

NextValidator == CallValidateHeaders \/ CallIsValidAgainstTemplate

SpecValidator == InitValidator /\ [][NextValidator]_vars

\* Any of the operations.
Init == InitKeys \/ InitHeaders \/ InitValid \/ InitMerge \/ InitTask \/ InitCatalog

Next ==
    \/ CallCompareKeys
    \/ CallValidateHeaders
    \/ CallIsValidAgainstTemplate
    \/ CallMergeControls
    \/ NextTask
    \/ NextReplace
    \/ NextWithdrawn

Spec == Init /\ [][Next]_vars

(***************************************************************************)
(* C1                                                                       *)
(***************************************************************************)
\* The key structure the claim describes: same number of keys, every
\* template key present, nested dicts matched by nested dicts, recursively.
RECURSIVE KeyStructureMatches(_, _)
KeyStructureMatches(T, C) ==
    /\ Cardinality(DOMAIN T) = Cardinality(DOMAIN C)
    /\ DOMAIN T \subseteq DOMAIN C
    /\ \A k \in DOMAIN T :
          T[k].kind = "dict" =>
              /\ C[k].kind = "dict"
              /\ KeyStructureMatches(T[k].dict, C[k].dict)

\* C1: compare_keys(T, C) is true exactly when T and C have the same number
\* of keys, every key of T is a key of C and every nested dict of T is matched
\* by a nested dict of C that satisfies the same condition; leaf values are
\* not compared.  The three examples of the claim are part of the statement.
C1_CompareKeysIsKeyStructure ==
    Returned("compare_keys") =>
        /\ status = KeyStructureMatches(template, candidate)
        /\ (/\ template = D2("a", Leaf(1), "b", Nested(D1("c", Leaf(2))))
            /\ candidate = D2("a", Leaf(9), "b", Nested(D1("c", Leaf(7)))))
              => status = TRUE
        /\ (template = D1("a", Leaf(1)) /\ candidate = D2("a", Leaf(1), "b", Leaf(2)))
              => status = FALSE
        /\ (template = D1("a", Nested(D1("c", Leaf(1)))) /\ candidate = D1("a", Leaf(1)))
              => status = FALSE

\* The first example of the claim has been evaluated: equal key structure,
\* every leaf different, two levels deep.
C1_Witness ==
    /\ Returned("compare_keys")
    /\ template = D2("a", Leaf(1), "b", Nested(D1("c", Leaf(2))))
    /\ candidate = D2("a", Leaf(9), "b", Nested(D1("c", Leaf(7))))
    /\ status = TRUE

(***************************************************************************)
(* C2                                                                       *)
(***************************************************************************)
HasSubstitution(tkeys) == \E k \in DOMAIN tkeys : IsSubstitution(tkeys[k])

WithoutSubstitutions(tkeys) == SelectSeq(tkeys, LAMBDA h : ~IsSubstitution(h))

\* The instance keeps every fixed heading of the template in place and puts,
\* where the template has a placeholder, a heading the template does not have.
ReplacesSubstitutions(tkeys, ikeys) ==
    /\ Len(ikeys) = Len(tkeys)
    /\ \A k \in DOMAIN tkeys :
          IF IsSubstitution(tkeys[k])
          THEN ikeys[k] \notin Range(tkeys)
          ELSE ikeys[k] = tkeys[k]

\* C2 as stated: an instance that leaves out the template's placeholder
\* headings (and keeps the others) is valid; in particular template
\* <<A, {{var}}, C>> with instance <<A, C>> is valid.
C2_PlaceholderMayBeOmitted ==
    (/\ Returned("_validate_headers")
     /\ HasSubstitution(template_keys)
     /\ instance_keys = WithoutSubstitutions(template_keys))
        => is_valid = TRUE

\* C2 as amended: a placeholder heading of the template may be replaced, at
\* its position, by a heading that does not occur in the template, and the
\* result is valid (template <<A, {{var}}, C>>, instance <<A, X, C>>); an
\* instance that leaves the placeholder headings out is invalid.
C2_PlaceholderMayBeReplaced ==
    Returned("_validate_headers") =>
        /\ ReplacesSubstitutions(template_keys, instance_keys) => is_valid = TRUE
        /\ (template_keys = <<"A", "{{var}}", "C">> /\ instance_keys = <<"A", "X", "C">>)
              => is_valid = TRUE
        /\ (HasSubstitution(template_keys)
              /\ instance_keys = WithoutSubstitutions(template_keys))
              => is_valid = FALSE

C2_Witness ==
    /\ Returned("_validate_headers")
    /\ template_keys = <<"A", "{{var}}", "C">>
    /\ instance_keys = <<"A", "X", "C">>
    /\ template_header_pointer = 3
    /\ is_valid = TRUE

(***************************************************************************)
(* C4                                                                       *)
(***************************************************************************)
\* The k-th instance key is met while the pointer is inside the template, it
\* occurs in the template and it is not the key the pointer is at.
OutOfPlaceAt(tkeys, ikeys, k) ==
    LET s == walk(tkeys, ikeys, k - 1)
    IN  /\ s.left = "no"
        /\ s.p < Len(tkeys)
        /\ ikeys[k] \in Range(tkeys)
        /\ ikeys[k] # tkeys[s.p + 1]

\* C4: an instance key that occurs in the template but is not template[p],
\* met while p is inside the template, ends the walk at that key with the
\* result invalid; template <<A, B, C>> with instance <<A, C, B>> is invalid.
C4_ReorderingRejected ==
    Returned("_validate_headers") =>
        /\ \A k \in DOMAIN instance_keys :
              OutOfPlaceAt(template_keys, instance_keys, k) =>
                  /\ walk(template_keys, instance_keys, k).left = "return False"
                  /\ walk(template_keys, instance_keys, k).n = k
                  /\ is_valid = FALSE
        /\ (template_keys = <<"A", "B", "C">> /\ instance_keys = <<"A", "C", "B">>)
              => is_valid = FALSE

C4_Witness ==
    /\ Returned("_validate_headers")
    /\ template_keys = <<"A", "B", "C">>
    /\ instance_keys = <<"A", "C", "B">>
    /\ OutOfPlaceAt(template_keys, instance_keys, 2)
    /\ is_valid = FALSE

(***************************************************************************)
(* C6                                                                       *)
(***************************************************************************)
\* The instance is the template with keys the template does not have
\* inserted at some positions.
IsTemplateWithInsertions(tkeys, ikeys) ==
    SelectSeq(ikeys, LAMBDA h : h \in Range(tkeys)) = tkeys

\* C6: a template without placeholder headings accepts every instance made
\* from it by inserting keys it does not have (template <<A, B, C>>, instance
\* <<A, B, X, C>>); and once the pointer has reached the end of the template
\* the loop is left and whatever instance keys remain are accepted.
C6_ExtraHeadingsTolerated ==
    Returned("_validate_headers") =>
        /\ (~HasSubstitution(template_keys)
              /\ IsTemplateWithInsertions(template_keys, instance_keys))
              => is_valid = TRUE
        /\ (template_keys = <<"A", "B", "C">> /\ instance_keys = <<"A", "B", "X", "C">>)
              => is_valid = TRUE
        /\ \A k \in 0..Len(instance_keys) :
              LET s == walk(template_keys, instance_keys, k)
              IN  (s.left # "return False" /\ s.p = Len(template_keys))
                      => /\ is_valid = TRUE
                         /\ k < Len(instance_keys)
                               => walk(template_keys, instance_keys, k + 1).left = "break"

C6_Witness ==
    /\ Returned("_validate_headers")
    /\ template_keys = <<"A", "B", "C">>
    /\ instance_keys = <<"A", "B", "X", "C">>
    /\ is_valid = TRUE

(***************************************************************************)
(* C3                                                                       *)
(***************************************************************************)
\* The governed section of the instance passes: both trees have the node
\* and the instance's governed keys pass the ordered check.
GovernedSectionPasses ==
    LET instance_gov_node == get_node_for_key(instance_tree, self.md_header_to_validate)
        template_gov_node == get_node_for_key(self.template_tree, self.md_header_to_validate)
    IN  /\ instance_gov_node.found
        /\ template_gov_node.found
        /\ _validate_headers(template_gov_node.governed_document,
                             instance_gov_node.governed_document)

\* C3: with a governed heading configured, whatever the validate-header and
\* validate-body flags, the instance is conformant only if both trees hold
\* the governed node and the governed keys pass the ordered check.
C3_GovernedCheckDecides ==
    (/\ Returned("is_valid_against_template")
     /\ self.md_header_to_validate # None
     /\ result.outcome = "True")
        => GovernedSectionPasses

(***************************************************************************)
(* C5                                                                       *)
(***************************************************************************)
\* C5: _validate_headers returns valid only if the pointer it ends with
\* equals the length of the template sequence, and it returns invalid
\* whenever the template sequence is longer than the instance's (template
\* <<A, B, C>>, instance <<A, B>>); a call of is_valid_against_template that
\* reaches the body check with a template tree of more headings than the
\* instance tree is non-conformant.
C5_RemovalRejected ==
    /\ Returned("_validate_headers") =>
          /\ is_valid = TRUE => template_header_pointer = Len(template_keys)
          /\ Len(template_keys) > Len(instance_keys) => is_valid = FALSE
          /\ (template_keys = <<"A", "B", "C">> /\ instance_keys = <<"A", "B">>)
                => is_valid = FALSE
    /\ (/\ Returned("is_valid_against_template")
        /\ "body" \in result.consulted
        /\ Len(self.template_tree.subnodes_keys) > Len(instance_tree.subnodes_keys))
          => result.outcome = "False"

C5_Witness ==
    /\ Returned("_validate_headers")
    /\ template_keys = <<"A", "B", "C">>
    /\ instance_keys = <<"A", "B">>
    /\ is_valid = FALSE

(***************************************************************************)
(* C7                                                                       *)
(***************************************************************************)
\* The template-version requirement fails: the key is absent from the
\* header, or its value is not in the path, or there is no Version field, or
\* Version differs from the key's value.
TemplateVersionFails(header, path) ==
    \/ TemplateVersionKey \notin DOMAIN header
    \/ ~Contains(path, header[TemplateVersionKey].leaf)
    \/ "Version" \notin DOMAIN header
    \/ header["Version"].leaf # header[TemplateVersionKey].leaf

\* C7: with header validation and template-version checking both enabled,
\* the call is non-conformant whenever the template-version requirement fails
\* on the validator's header, and compare_keys is not consulted then.
C7_TemplateVersionFailsWithoutKeyCheck ==
    (/\ Returned("is_valid_against_template")
     /\ self.validate_yaml_header
     /\ self.template_version
     /\ TemplateVersionFails(self.template_header, instance))
        => /\ result.outcome = "False"
           /\ "compare_keys" \notin result.consulted

\* The version key is absent and the generic key check would have passed.
C7_Witness ==
    /\ Returned("is_valid_against_template")
    /\ self.validate_yaml_header
    /\ self.template_version
    /\ TemplateVersionKey \notin DOMAIN self.template_header
    /\ compare_keys(self.template_header, instance_header)
    /\ result.outcome = "False"

(***************************************************************************)
(* C8                                                                       *)
(***************************************************************************)
MoreLevel1InInstance ==
    Len(get_all_headers_for_level_1(instance_tree))
        > Len(get_all_headers_for_level_1(self.template_tree))

\* C8: a call that reaches the body check with an instance of more level-1
\* headings than the template is non-conformant, also when the instance's
\* heading sequence passes the ordered check.
C8_NewLevel1HeadingRejected ==
    (/\ Returned("is_valid_against_template")
     /\ "body" \in result.consulted
     /\ MoreLevel1InInstance)
        => result.outcome = "False"

\* Nothing but the level-1 count stands against the instance.
C8_Witness ==
    /\ Returned("is_valid_against_template")
    /\ "body" \in result.consulted
    /\ ~self.template_version
    /\ MoreLevel1InInstance
    /\ _validate_headers(self.template_tree.subnodes_keys, instance_tree.subnodes_keys)
    /\ result.outcome = "False"

(***************************************************************************)
(* C9                                                                       *)
(***************************************************************************)
\* C9: when base and incoming control have the same parameter ids, every
\* parameter of the base has, after the merge, the incoming values if
\* replace_params is true and its own earlier values if it is false; a
\* control merged with an identical copy of itself equals that copy.
C9_MergePrecedence ==
    Returned("merge_controls") =>
        /\ ParamIdsOf(base_before) = ParamIdsOf(control_b) =>
              /\ ParamIdsOf(control_a) = ParamIdsOf(base_before)
              /\ \A n \in DOMAIN control_a.params :
                    control_a.params[n].values =
                        IF replace_params
                        THEN ParamOf(control_b, control_a.params[n].id).values
                        ELSE ParamOf(base_before, control_a.params[n].id).values
        /\ control_b = base_before => control_a = control_b

\* One parameter's values differ between the two controls.
C9_Witness ==
    /\ Returned("merge_controls")
    /\ Len(base_before.params) = 2
    /\ ParamIdsOf(base_before) = ParamIdsOf(control_b)
    /\ base_before.params[1].values = <<"param_0_val">>
    /\ ParamOf(control_b, base_before.params[1].id).values = <<"new value">>
    /\ replace_params = TRUE
    /\ control_a.params[1].values = <<"new value">>

(***************************************************************************)
(* C13                                                                      *)
(***************************************************************************)
\* The k-th instance key is met while the pointer is inside the template,
\* it does not occur in the template and template[p] is a placeholder.
PlaceholderStepAt(tkeys, ikeys, k) ==
    LET s == walk(tkeys, ikeys, k - 1)
    IN  /\ s.left = "no"
        /\ s.p < Len(tkeys)
        /\ ikeys[k] \notin Range(tkeys)
        /\ IsSubstitution(tkeys[s.p + 1])

\* C13 as stated: at such a key the pointer advances by one and the key is
\* not consumed (the loop has taken no more keys than before), so that one
\* key can skip consecutive placeholders: template <<{{var}}, {{var}}, A>>
\* accepts instance <<X, A, A>>.
C13_PlaceholderStepKeepsKey ==
    Returned("_validate_headers") =>
        /\ \A k \in DOMAIN instance_keys :
              PlaceholderStepAt(template_keys, instance_keys, k) =>
                  LET s == walk(template_keys, instance_keys, k - 1)
                      after == loop_body(template_keys, s, instance_keys[k])
                  IN  after.p = s.p + 1 /\ after.n = s.n
        /\ (template_keys = <<"{{var}}", "{{var}}", "A">> /\ instance_keys = <<"X", "A", "A">>)
              => is_valid = TRUE

\* C13 as amended: at such a key the pointer advances by one and the key is
\* consumed, the next instance key being the one compared against the new
\* template[p]; each placeholder skipped takes one instance key, so the
\* pointer never exceeds the number of keys taken, and template
\* <<{{var}}, {{var}}, A>> rejects instance <<X, A, A>> and accepts <<X, X, A>>.
C13_PlaceholderStepConsumesKey ==
    Returned("_validate_headers") =>
        /\ \A k \in DOMAIN instance_keys :
              PlaceholderStepAt(template_keys, instance_keys, k) =>
                  LET s == walk(template_keys, instance_keys, k - 1)
                      after == walk(template_keys, instance_keys, k)
                  IN  after.p = s.p + 1 /\ after.n = s.n + 1 /\ after.left = "no"
        /\ \A k \in 0..Len(instance_keys) :
              walk(template_keys, instance_keys, k).p
                  <= walk(template_keys, instance_keys, k).n
        /\ (template_keys = <<"{{var}}", "{{var}}", "A">> /\ instance_keys = <<"X", "A", "A">>)
              => is_valid = FALSE
        /\ (template_keys = <<"{{var}}", "{{var}}", "A">> /\ instance_keys = <<"X", "X", "A">>)
              => is_valid = TRUE

\* Two placeholders in a row, each taking its own instance key.
C13_Witness ==
    /\ Returned("_validate_headers")
    /\ template_keys = <<"{{var}}", "{{var}}", "A">>
    /\ instance_keys = <<"X", "X", "A">>
    /\ PlaceholderStepAt(template_keys, instance_keys, 1)
    /\ PlaceholderStepAt(template_keys, instance_keys, 2)
    /\ is_valid = TRUE

(***************************************************************************)
(* C16                                                                      *)
(***************************************************************************)
\* What the template-version requirement alone gives, from the validator's
\* header and the instance path.
VersionOutcome(header, path) ==
    IF TemplateVersionFails(header, path) THEN "False" ELSE "True"

\* C16: with header validation and template-version checking both enabled,
\* the result is a function of the template header and the instance path
\* only: it is what the template-version requirement gives, whatever the
\* instance header and the instance tree are, and neither compare_keys nor
\* the governed-section check nor the body check is reached.
C16_VersionAloneDecides ==
    (/\ Returned("is_valid_against_template")
     /\ self.validate_yaml_header
     /\ self.template_version)
        => /\ result.outcome = VersionOutcome(self.template_header, instance)
           /\ result.consulted = {"template_version"}
           /\ \A header \in InstanceHeaders :
                 is_valid_against_template(self, instance, header, instance_tree).outcome
                     = result.outcome

\* Conformant although the instance header does not match the template's
\* keys, the governed section is missing and the body has lost headings.
C16_Witness ==
    /\ Returned("is_valid_against_template")
    /\ self.validate_yaml_header
    /\ self.template_version
    /\ self.validate_md_body
    /\ self.md_header_to_validate # None
    /\ ~compare_keys(self.template_header, instance_header)
    /\ ~get_node_for_key(instance_tree, self.md_header_to_validate).found
    /\ Len(self.template_tree.subnodes_keys) > Len(instance_tree.subnodes_keys)
    /\ result.outcome = "True"

(***************************************************************************)
(* C17                                                                      *)
(***************************************************************************)
\* sub is a subsequence of seq, read from position `from` of sub.
RECURSIVE IsSubsequenceFrom(_, _, _)
IsSubsequenceFrom(sub, seq, from) ==
    IF from > Len(sub)
    THEN TRUE
    ELSE IF seq = <<>>
    THEN FALSE
    ELSE IF Head(seq) = sub[from]
    THEN IsSubsequenceFrom(sub, Tail(seq), from + 1)
    ELSE IsSubsequenceFrom(sub, Tail(seq), from)

\* C17: an instance that holds the template as a subsequence is rejected
\* all the same when, with the pointer still inside the template, it repeats
\* a heading the template has at another position than p (template <<A, B>>,
\* instance <<A, A, B>>); an instance that starts with the whole template is
\* accepted whatever headings follow (template <<A, B>>, instance <<A, B, A>>).
C17_RepeatedHeading ==
    Returned("_validate_headers") =>
        /\ \A k \in DOMAIN instance_keys :
              (/\ IsSubsequenceFrom(template_keys, instance_keys, 1)
               /\ OutOfPlaceAt(template_keys, instance_keys, k))
                  => is_valid = FALSE
        /\ (/\ Len(instance_keys) >= Len(template_keys)
            /\ SubSeq(instance_keys, 1, Len(template_keys)) = template_keys)
              => is_valid = TRUE
        /\ (template_keys = <<"A", "B">> /\ instance_keys = <<"A", "A", "B">>)
              => is_valid = FALSE
        /\ (template_keys = <<"A", "B">> /\ instance_keys = <<"A", "B", "A">>)
              => is_valid = TRUE

C17_Witness ==
    /\ Returned("_validate_headers")
    /\ template_keys = <<"A", "B">>
    /\ instance_keys = <<"A", "A", "B">>
    /\ IsSubsequenceFrom(template_keys, instance_keys, 1)
    /\ OutOfPlaceAt(template_keys, instance_keys, 2)
    /\ is_valid = FALSE

(***************************************************************************)
(* C14                                                                      *)
(***************************************************************************)
\* The task is in a run whose set-up went through.
InRun ==
    /\ pc[1] = "_transform"
    /\ ~Ready("_transform")
    /\ SetupPasses(task.config)

AcceptedOf(files) == SelectSeq(files, LAMBDA f : f.suffix \in AcceptedSuffixes)

\* The inputs are read in sorted name order, the ones with a foreign suffix
\* left out: what was read and what is left make the sorted accepted names.
C14_SortedOrder ==
    InRun => task.processed \o AcceptedOf(task.ifiles)
                = AcceptedOf(sorted(iterdir(task.input_dir)))

\* Without overwrite, the turn that meets an accepted input whose output
\* exists returns the failure of the mode and writes nothing.
C14_ExistingOutputStops ==
    (/\ pc = <<"_transform", "loop">>
     /\ task.ifiles # <<>>
     /\ Head(task.ifiles).suffix \in AcceptedSuffixes
     /\ ~task._overwrite
     /\ task.output_dir[Head(task.ifiles).stem] # Absent)
    => (/\ pc' = <<"_transform", "returned">>
        /\ task'.outcome = Outcome(task, "failure")
        /\ task'.output_dir = task.output_dir)

\* No output comes from an input that was not read, and without overwrite
\* an execute() leaves the output of every input it got past written.
C14_EarlierWrittenLaterNot ==
    InRun =>
       /\ \A stem \in Stems :
             task.output_dir[stem] \in Names => task.output_dir[stem] \in Range(task.processed)
       /\ (~task._overwrite /\ ~task._simulate) =>
             \A n \in 1 .. Len(task.processed) :
                (n < Len(task.processed) \/ task.outcome \in {None, "success"})
                   => task.output_dir[task.processed[n].stem] = task.processed[n]

\* The last input read raised.
LastInputRaised ==
    /\ task.processed # <<>>
    /\ task.input_dir[task.processed[Len(task.processed)]] = "bad"

\* The last accepted input that goes to the output of this stem.
LastFor(stem) ==
    LET accepted == AcceptedOf(sorted(iterdir(task.input_dir)))
        n == CHOOSE n \in DOMAIN accepted :
                /\ accepted[n].stem = stem
                /\ \A m \in DOMAIN accepted : accepted[m].stem = stem => m <= n
    IN  accepted[n]

AcceptedStems == {f.stem : f \in Range(AcceptedOf(sorted(iterdir(task.input_dir))))}

NoInputRaises == \A f \in Names : task.input_dir[f] # "bad"

\* The claim as written: with overwrite, whatever the mode and the inputs,
\* the run ends in success with every output replaced.
C14_OverwriteAlwaysReplaces ==
    (InRun /\ Returned("_transform") /\ task._overwrite) =>
       /\ task.outcome = Outcome(task, "success")
       /\ \A stem \in AcceptedStems : task.output_dir[stem] = LastFor(stem)

\* With overwrite, a run in which no input raises ends in the success of
\* the mode, execute() having replaced every output and simulate() none; a
\* run in which an input raises ends in the failure of the mode at that input.
C14_OverwriteReplaces ==
    (InRun /\ Returned("_transform") /\ task._overwrite) =>
       IF NoInputRaises
       THEN /\ task.outcome = Outcome(task, "success")
            /\ \A stem \in AcceptedStems :
                  IF task._simulate THEN task.output_dir[stem] \in {Absent, Old}
                  ELSE task.output_dir[stem] = LastFor(stem)
       ELSE task.outcome = Outcome(task, "failure") /\ LastInputRaised

\* Whatever overwrite is, an input that raises ends the run at once with
\* the failure of the mode, and nothing is written for it.
C14_RaisingInputFails ==
    (InRun /\ LastInputRaised) =>
       /\ Returned("_transform")
       /\ task.outcome = Outcome(task, "failure")
       /\ LET last == task.processed[Len(task.processed)]
          IN  task.output_dir[last.stem] # last

\* A run whose set-up fails ends in the failure of the mode with no input
\* read and no output written.
C14_FailedSetup ==
    (pc[1] = "_transform" /\ ~Ready("_transform") /\ ~SetupPasses(task.config)) =>
       /\ Returned("_transform")
       /\ task.outcome = Outcome(task, "failure")
       /\ task.processed = <<>>
       /\ \A stem \in Stems : task.output_dir[stem] \in {Absent, Old}

C15_NoWriteNoRaise ==
    (pc[1] = "_transform" /\ ~Ready("_transform")) =>
       /\ ~task.exception
       /\ task._simulate => \A stem \in Stems : task.output_dir[stem] \in {Absent, Old}
       /\ Returned("_transform") =>
             /\ task.outcome \in (IF task._simulate
                                   THEN {"simulated-success", "simulated-failure"}
                                   ELSE {"success", "failure"})
             /\ (~SetupPasses(task.config) \/ LastInputRaised)
                   => task.outcome = Outcome(task, "failure")

\* A simulate() whose second input raised: nothing was written for the
\* first, and the outcome is simulated-failure.
C15_Witness ==
    /\ Returned("_transform")
    /\ task._simulate
    /\ SetupPasses(task.config)
    /\ Len(task.processed) >= 2
    /\ LastInputRaised
    /\ task.outcome = "simulated-failure"
    /\ task.output_dir[task.processed[1].stem] = Absent

(***************************************************************************)
(* C11                                                                      *)
(***************************************************************************)
\* The controls a place of a catalog owns, in order.
Slot(catalog, place) ==
    IF place = "root" THEN catalog.controls
    ELSE IF catalog.groups = <<>> THEN <<>>
    ELSE IF place = "g1" THEN catalog.groups[1].controls
    ELSE IF catalog.groups[1].groups = <<>> THEN <<>>
    ELSE catalog.groups[1].groups[1].controls

\* The groups of a catalog or a group, without their controls.
RECURSIVE GroupIds(_)
GroupIds(owner) ==
    [n \in DOMAIN owner.groups |->
        [id |-> owner.groups[n].id, groups |-> GroupIds(owner.groups[n])]]

\* A control without the controls it holds.
Own(control) == [control EXCEPT !.controls = <<>>]

\* The control stands for old: it is the control last supplied for old's
\* id, and the controls it holds are, one for one, the ones last supplied
\* for the controls old held.
StandsFor(control, old) ==
    /\ Own(control) = Own(supplied[old.id])
    /\ Len(control.controls) = Len(old.controls)
    /\ \A m \in DOMAIN old.controls :
          /\ Own(control.controls[m]) = Own(supplied[old.controls[m].id])
          /\ control.controls[m].controls = <<>>

\* C11: after any replace_control calls, get_control gives for every id the
\* control last supplied for it, and get_catalog gives the original catalog
\* with, at every position of every slot and of every control that holds
\* controls, the control last supplied for the id that stood there;
\* replace_control of an unknown id fails with NotFound and changes nothing.
C11_ReplacementsReflected ==
    InCatalog =>
       /\ \A id \in DOMAIN supplied : get_control(interface, id) = Found(supplied[id])
       /\ get_control(interface, UnknownId) = NotFound
       /\ LET catalog == get_catalog(interface)._catalog
          IN  /\ GroupIds(catalog) = GroupIds(original)
              /\ \A place \in Places :
                    /\ Len(Slot(catalog, place)) = Len(Slot(original, place))
                    /\ \A n \in DOMAIN Slot(original, place) :
                          StandsFor(Slot(catalog, place)[n], Slot(original, place)[n])
       /\ call.name = "get_catalog" => call.result.value = get_catalog(interface)._catalog
       /\ call.name = "replace_control" =>
             IF call.arg.id \in DOMAIN supplied
             THEN call.result.raised = None
             ELSE call.result.raised = "NotFound" /\ interface = call.before

\* As in test_catalog_interface: get_catalog has returned a catalog whose
\* second ungrouped control holds a replaced control and is itself, like
\* the first, the original one.
C11_Witness ==
    /\ InCatalog
    /\ call.name = "get_catalog"
    /\ Len(original.controls) >= 2
    /\ original.controls[2].controls # <<>>
    /\ call.result.value.controls[2].controls[1].title = "updated"
    /\ call.result.value.controls[2].controls[1].id = original.controls[2].controls[1].id
    /\ Own(call.result.value.controls[2]) = Own(original.controls[2])
    /\ call.result.value.controls[1] = original.controls[1]

(***************************************************************************)
(* C12                                                                      *)
(***************************************************************************)
\* The controls of the catalog: the ones its slots own and the ones these hold.
Reachable(catalog_interface) ==
    LET owned == UNION {Range(Slot(catalog_interface._catalog, place)) : place \in Places}
    IN  owned \cup UNION {Range(control.controls) : control \in owned}

NotWithdrawn(controls) == {control \in controls : Withdrawn \notin Range(control.props)}

\* The two counts are those of all controls and of the ones not withdrawn.
C12_Counts ==
    InCatalog =>
       /\ get_count_of_controls_in_catalog(interface, TRUE)
             = Cardinality(Reachable(interface))
       /\ get_count_of_controls_in_catalog(interface, FALSE)
             = Cardinality(NotWithdrawn(Reachable(interface)))
       /\ call.name = "get_count_of_controls_in_catalog" =>
             call.result.value = get_count_of_controls_in_catalog(interface, call.arg)

\* After delete_withdrawn_controls no withdrawn control is in the catalog
\* or the dict, and a second delete_withdrawn_controls changes nothing.
C12_NoneLeft ==
    (InCatalog /\ call.name = "delete_withdrawn_controls") =>
       /\ get_count_of_controls_in_catalog(interface, TRUE)
             = get_count_of_controls_in_catalog(interface, FALSE)
       /\ NotWithdrawn(Reachable(interface)) = Reachable(interface)
       /\ \A id \in DOMAIN interface._control_dict :
             /\ Withdrawn \notin Range(interface._control_dict[id].props)
             /\ \A n \in DOMAIN interface._control_dict[id].controls :
                   Withdrawn \notin Range(interface._control_dict[id].controls[n].props)
       /\ delete_withdrawn_controls(interface) = interface

\* C12: the counts; after delete_withdrawn_controls both counts are the
\* count without withdrawn controls of before, no withdrawn control is
\* left, and a second delete_withdrawn_controls changes nothing.
C12_WithdrawnExcluded ==
    /\ C12_Counts
    /\ C12_NoneLeft
    /\ (InCatalog /\ call.name = "delete_withdrawn_controls") =>
          /\ get_count_of_controls_in_catalog(interface, TRUE)
                = get_count_of_controls_in_catalog(call.before, FALSE)
          /\ get_count_of_controls_in_catalog(interface, FALSE)
                = get_count_of_controls_in_catalog(call.before, FALSE)
          /\ Reachable(interface) = NotWithdrawn(Reachable(call.before))

\* As in test_catalog_generate_withdrawn: control_b of the fixture is
\* withdrawn; delete_withdrawn_controls has removed it from its group and
\* left the other four controls, control_d1 among them.
C12_Witness ==
    /\ InCatalog
    /\ call.name = "delete_withdrawn_controls"
    /\ call.before._catalog = sample_catalog_rich_controls(TRUE)
    /\ get_count_of_controls_in_catalog(call.before, TRUE) = 5
    /\ get_count_of_controls_in_catalog(call.before, FALSE) = 4
    /\ get_count_of_controls_in_catalog(interface, TRUE) = 4
    /\ Len(Slot(interface._catalog, "g1")) = 1
    /\ get_control(interface, "control_d1").raised = None

====
